---- MODULE Spec2Model ----
(***************************************************************************)
(* NovaCore memory engine: relevance ranking (utils/vector.py), connection *)
(* inference (utils/memory_connections.py), topic extraction and the       *)
(* importance heuristic (utils/ai.py).                                     *)
(*                                                                         *)
(* Numbers.  Python floats are modelled in fixed point: a score x is the   *)
(* integer x * Scale.  Weights and importance scores are tenths, the       *)
(* recency factor is a fraction of 3650.  Embedding components are the     *)
(* integers -1, 0, 1 (np.random.uniform(-1, 1, ...) draws from [-1, 1]).    *)
(*                                                                         *)
(* Text.  A string is a sequence of one-character strings; " " is the      *)
(* whitespace character.                                                   *)
(***************************************************************************)
EXTENDS Integers, Sequences, FiniteSets

VARIABLES db, call, again, fn

vars == <<db, call, again, fn>>

\* ------------------------------------------------------------------ bounds

\* Longest vector handed to calculate_similarity on its own.
MaxVecLen == 2

\* Longest string handed to calculate_bm25_score on its own.
MaxStrLen == 3

\* ------------------------------------------------------------ fixed point

\* One unit of a score: 1.0 is Scale.
Scale == 1000 * 100

Min(a, b) == IF a <= b THEN a ELSE b

RECURSIVE SqrtSearch(_, _, _)
\* Largest r in lo..hi with r * r <= n (lo * lo <= n is assumed).
SqrtSearch(n, lo, hi) ==
    IF lo >= hi THEN lo
    ELSE LET mid == (lo + hi + 1) \div 2
         IN  IF mid * mid <= n THEN SqrtSearch(n, mid, hi)
             ELSE SqrtSearch(n, lo, mid - 1)

\* Integer square root of n, for 0 <= n <= 1000000.
ISqrt(n) == SqrtSearch(n, 0, 1000)

\* ------------------------------------------------------------ vector math

\* The integer vectors of length n with components in -1..1.
VecsOfLen(n) == [1..n -> -1..1]

RECURSIVE Dot(_, _)
\* np.dot of two equal-length vectors.
Dot(a, b) ==
    IF Len(a) = 0 THEN 0
    ELSE Head(a) * Head(b) + Dot(Tail(a), Tail(b))

\* A returned value / a raised exception.
Return(v) == [kind |-> "return", value |-> v]

Raise(e) == [kind |-> "raise", error |-> e]

\* calculate_similarity on the common prefix of the two vectors: no error
\* when the lengths differ.
CalculateSimilarityTruncating(vec1, vec2) ==
    LET n == Min(Len(vec1), Len(vec2))
        a == SubSeq(vec1, 1, n)
        b == SubSeq(vec2, 1, n)
        dot == Dot(a, b)
        sq1 == Dot(a, a)
        sq2 == Dot(b, b)
    IN  IF sq1 = 0 \/ sq2 = 0 THEN Return(0)
        ELSE Return((IF dot < 0 THEN -1 ELSE 1)
                    * ISqrt((dot * dot * 1000000) \div (sq1 * sq2))
                    * (Scale \div 1000))

\* calculate_similarity dividing by the squared magnitudes (the norms' square
\* roots forgotten).
CalculateSimilarityNoSqrt(vec1, vec2) ==
    IF Len(vec1) # Len(vec2) THEN Raise("ValueError")
    ELSE LET dot == Dot(vec1, vec2)
             sq1 == Dot(vec1, vec1)
             sq2 == Dot(vec2, vec2)
         IN  IF sq1 = 0 \/ sq2 = 0 THEN Return(0)
             ELSE Return((dot * Scale) \div (sq1 * sq2))

\* calculate_similarity: np.dot raises ValueError when the lengths differ;
\* 0.0 when a magnitude is 0; else dot / (|vec1| * |vec2|), to three decimals.
CalculateSimilarity(vec1, vec2) ==
    IF Len(vec1) # Len(vec2) THEN Raise("ValueError")
    ELSE LET dot == Dot(vec1, vec2)
             sq1 == Dot(vec1, vec1)
             sq2 == Dot(vec2, vec2)
         IN  IF sq1 = 0 \/ sq2 = 0 THEN Return(0)
             ELSE Return((IF dot < 0 THEN -1 ELSE 1)
                         * ISqrt((dot * dot * 1000000) \div (sq1 * sq2))
                         * (Scale \div 1000))

\* ------------------------------------------------------------------- text

\* The characters of the bounded strings.
Chars == {"a", "A", "b", " "}

\* The letters str.lower changes, and what it changes them to.
UpperCase == <<"A", "B", "C", "D", "E", "F", "G", "H", "I", "J", "K", "L", "M",
               "N", "O", "P", "Q", "R", "S", "T", "U", "V", "W", "X", "Y", "Z">>

LowerCase == <<"a", "b", "c", "d", "e", "f", "g", "h", "i", "j", "k", "l", "m",
               "n", "o", "p", "q", "r", "s", "t", "u", "v", "w", "x", "y", "z">>

\* The upper-case letters as a set.
UpperLetters == { UpperCase[i] : i \in 1..26 }

\* str.lower on one character.
LowerChar(c) ==
    IF c \in UpperLetters
    THEN LowerCase[CHOOSE i \in 1..26 : UpperCase[i] = c]
    ELSE c

\* str.lower.
Lower(s) == [i \in 1..Len(s) |-> LowerChar(s[i])]

RECURSIVE SplitFrom(_, _, _, _)
\* str.split() scanning s from position i; cur is the word being read.
SplitFrom(s, i, cur, acc) ==
    IF i > Len(s) THEN (IF cur = <<>> THEN acc ELSE Append(acc, cur))
    ELSE IF s[i] = " "
         THEN SplitFrom(s, i + 1, <<>>, IF cur = <<>> THEN acc ELSE Append(acc, cur))
         ELSE SplitFrom(s, i + 1, Append(cur, s[i]), acc)

\* str.split(): the maximal runs of non-whitespace characters, in order.
Split(s) == SplitFrom(s, 1, <<>>, <<>>)

\* set(s.lower().split())
Terms(s) ==
    LET words == Split(Lower(s))
    IN  { words[i] : i \in 1..Len(words) }

\* calculate_bm25_score with the length factor written 1.0 + length_ratio * 0.5.
CalculateBm25ScoreLongFactor(query, text) ==
    LET query_terms == Terms(query)
        doc_terms == Terms(text)
        matches == Cardinality(query_terms \cap doc_terms)
        length_pct == Min(Cardinality(doc_terms), 100)
    IN  IF query_terms = {} \/ doc_terms = {} THEN 0
        ELSE (matches * (200 + length_pct) * (Scale \div 200))
                 \div Cardinality(query_terms)

\* calculate_bm25_score comparing the terms as written (lower() left out).
CalculateBm25ScoreCaseSensitive(query, text) ==
    LET query_terms == { Split(query)[i] : i \in 1..Len(Split(query)) }
        doc_terms == { Split(text)[i] : i \in 1..Len(Split(text)) }
        matches == Cardinality(query_terms \cap doc_terms)
        length_pct == Min(Cardinality(doc_terms), 100)
    IN  IF query_terms = {} \/ doc_terms = {} THEN 0
        ELSE (matches * (100 + length_pct) * (Scale \div 200))
                 \div Cardinality(query_terms)

\* calculate_bm25_score: (matches / |query_terms|) * (0.5 + 0.5 * min(|doc_terms|, 100) / 100),
\* 0.0 when either term set is empty.
CalculateBm25Score(query, text) ==
    LET query_terms == Terms(query)
        doc_terms == Terms(text)
        matches == Cardinality(query_terms \cap doc_terms)
        length_pct == Min(Cardinality(doc_terms), 100)
    IN  IF query_terms = {} \/ doc_terms = {} THEN 0
        ELSE (matches * (100 + length_pct) * (Scale \div 200))
                 \div Cardinality(query_terms)

\* ------------------------------------------------------------- data model

\* Rows of the memories table a scenario may hold.
MaxPool == 2

\* Largest limit a caller passes.
MaxLimit == 2

\* Dimension of every embedding the provider returns (1536 in deployment).
EmbeddingDim == 2

\* The i-th unit vector of the deployment's dimension.
Unit(i) == [k \in 1..EmbeddingDim |-> IF k = i THEN 1 ELSE 0]

Ones(n) == [k \in 1..n |-> 1]

Negate(v) == [k \in 1..Len(v) |-> -v[k]]

\* Memory.embedding as memory_similarity_search reads it: absent (None or
\* empty), a text json.loads decodes to vec, or a value json.loads rejects.
NoEmbedding == [kind |-> "none", vec |-> <<>>]

JsonEmbedding(v) == [kind |-> "json", vec |-> v]

RawEmbedding == [kind |-> "raw", vec |-> <<>>]

\* A Memory row without its id.  importance_score and updated_gap are <<>>
\* for None, else <<tenths>> and <<(updated_at - created_at).days>>.
MemoryRow(content, embedding, importance, gap, client, brand, customer) ==
    [content |-> content, embedding |-> embedding, importance_score |-> importance,
     updated_gap |-> gap, client_id |-> client, brand_id |-> brand,
     customer_id |-> customer]

\* The rows scenarios are built from.  updated_at is never before created_at:
\* both default to now() at insert and an update sets updated_at to now().
Catalog ==
    { MemoryRow(<<"a", " ", "b">>, JsonEmbedding(Unit(1)), <<10>>, <<0>>, "c1", "b1", "None"),
      MemoryRow(<<"A">>, NoEmbedding, <<>>, <<>>, "c1", "b1", "None"),
      MemoryRow(<<"b">>, JsonEmbedding(Ones(EmbeddingDim - 1)), <<5>>, <<400>>, "c1", "b1", "None"),
      MemoryRow(<<"b", " ", "a">>, RawEmbedding, <<5>>, <<100>>, "c1", "None", "None"),
      MemoryRow(<<"a">>, JsonEmbedding(Ones(EmbeddingDim)), <<5>>, <<100>>, "c2", "b2", "None"),
      MemoryRow(<<"b">>, JsonEmbedding(Unit(EmbeddingDim)), <<10>>, <<400>>, "c1", "b1", "k1") }

\* Memory: a row with its primary key.
WithId(row, id) ==
    [id |-> id, content |-> row.content, embedding |-> row.embedding,
     importance_score |-> row.importance_score, updated_gap |-> row.updated_gap,
     client_id |-> row.client_id, brand_id |-> row.brand_id,
     customer_id |-> row.customer_id]

\* The tables of at most MaxPool rows; a row's id is its position.
Tables ==
    UNION { { [i \in 1..n |-> WithId(rows[i], i)] : rows \in [1..n -> Catalog] } : n \in 0..MaxPool }

\* ----------------------------------------------------- embedding provider

\* What the embeddings API returns for a text: the same vector for the same text.
ProviderEmbed(text) ==
    IF <<"a">> \in Terms(text) THEN Unit(1) ELSE Ones(EmbeddingDim)

\* Samples of np.random.uniform(-1, 1, dim): against and across Unit(1).
RandomEmbeddings == { Negate(Unit(1)), Unit(EmbeddingDim) }

\* generate_embedding that answers every call with a random vector.
GenerateEmbeddingAlwaysRandom(text, ok) == RandomEmbeddings

\* generate_embedding: the vectors it may return.  ok: the API key is set and
\* the call succeeds; otherwise a random vector of the model's dimension.
GenerateEmbedding(text, ok) ==
    IF ok THEN { ProviderEmbed(text) } ELSE RandomEmbeddings

\* process_memory_embedding: generate_embedding never raises, so its except
\* branch (return []) is not taken.
ProcessMemoryEmbedding(content, ok) == GenerateEmbedding(content, ok)

\* One answer of the provider: whether the call succeeded, and the vector.
Answers(text) ==
    { [ok |-> o, vec |-> v] : o \in BOOLEAN, v \in RandomEmbeddings \cup { ProviderEmbed(text), <<>> } }

QueryAnswers(text) == { a \in Answers(text) : a.vec \in GenerateEmbedding(text, a.ok) }

MemoryAnswers(content) == { a \in Answers(content) : a.vec \in ProcessMemoryEmbedding(content, a.ok) }

\* ---------------------------------------------------------------- scoring

\* json.loads(memory.embedding) if memory.embedding else
\* await process_memory_embedding(memory.content); tape holds the provider's
\* answer for every memory without a stored embedding.
MemoryEmbedding(memory, tape) ==
    CASE memory.embedding.kind = "none" -> Return(tape[memory.id].vec)
      [] memory.embedding.kind = "json" -> Return(memory.embedding.vec)
      [] OTHER -> Raise("DecodeError")

\* days_old that reads every row as never modified.
DaysOldNeverModified(memory) == 0

\* (memory.updated_at - memory.created_at).days if memory.updated_at else 0
DaysOld(memory) == IF memory.updated_gap = <<>> THEN 0 ELSE memory.updated_gap[1]

\* memory.importance_score with None read as 0.0.
ImportanceBoostNoneAsZero(memory) ==
    IF memory.importance_score = <<>> THEN 0 ELSE memory.importance_score[1]

\* memory.importance_score if memory.importance_score is not None else 0.5, in tenths.
ImportanceBoost(memory) ==
    IF memory.importance_score = <<>> THEN 5 ELSE memory.importance_score[1]

\* combined_score with the weights applied whether or not the search is hybrid.
CombinedScoreAlwaysWeighted(hybrid_search, vector_similarity, keyword_score, vector_weight, keyword_weight) ==
    (vector_similarity * vector_weight + keyword_score * keyword_weight) \div 10

\* combined_score: the weighted sum in hybrid mode, else the vector similarity.
CombinedScore(hybrid_search, vector_similarity, keyword_score, vector_weight, keyword_weight) ==
    IF hybrid_search
    THEN (vector_similarity * vector_weight + keyword_score * keyword_weight) \div 10
    ELSE vector_similarity

\* 3650 * recency_factor: 1.0 - min(days_old, 365) / 365 * 0.1
Recency(days_old) == 3650 - Min(days_old, 365)

\* 100 * (0.8 + importance_boost * 0.2)
ImportanceFactor(importance_boost) == 80 + importance_boost * 2

\* final_score = combined_score * recency_factor * (0.8 + importance_boost * 0.2)
FinalScore(combined_score, days_old, importance_boost) ==
    (((combined_score * Recency(days_old)) \div 3650)
        * ImportanceFactor(importance_boost)) \div 100

\* The loop body of memory_similarity_search up to final_score: the score
\* breakdown of one memory, or the exception its scoring raises.
ScoreMemory(p, query_embedding, memory, tape) ==
    LET memory_embedding == MemoryEmbedding(memory, tape)
    IN  IF memory_embedding.kind = "raise" THEN memory_embedding
        ELSE LET sim == CalculateSimilarity(query_embedding, memory_embedding.value)
             IN  IF sim.kind = "raise" THEN sim
                 ELSE LET vector_similarity == sim.value
                          keyword_score ==
                              IF p.hybrid_search THEN CalculateBm25Score(p.query, memory.content)
                              ELSE 0
                          combined_score ==
                              CombinedScore(p.hybrid_search, vector_similarity, keyword_score,
                                            p.vector_weight, p.keyword_weight)
                      IN  Return([id |-> memory.id,
                                  vector_similarity |-> vector_similarity,
                                  keyword_score |-> keyword_score,
                                  combined_score |-> combined_score,
                                  recency_factor |->
                                      (Scale * Recency(DaysOld(memory))) \div 3650,
                                  importance_factor |->
                                      (Scale * ImportanceFactor(ImportanceBoost(memory))) \div 100,
                                  final_score |->
                                      FinalScore(combined_score, DaysOld(memory),
                                                 ImportanceBoost(memory))])

RECURSIVE ScoreLoop(_, _, _, _, _, _)
\* for memory in memories: ... if final_score >= threshold: append.  The
\* first exception leaves the loop; reached is the number of memories entered.
ScoreLoop(p, query_embedding, tape, memories, i, acc) ==
    IF i > Len(memories) THEN [kind |-> "return", scored |-> acc, reached |-> Len(memories)]
    ELSE LET r == ScoreMemory(p, query_embedding, memories[i], tape)
         IN  IF r.kind = "raise"
             THEN [kind |-> "raise", error |-> r.error, scored |-> <<>>, reached |-> i]
             ELSE ScoreLoop(p, query_embedding, tape, memories, i + 1,
                            IF r.value.final_score >= p.threshold
                            THEN Append(acc, r.value) ELSE acc)

\* An insertion that puts x before the elements equal to it.
InsertDescBeforeEqual(sorted, x) ==
    LET k == Cardinality({ j \in 1..Len(sorted) : sorted[j].final_score > x.final_score })
    IN  SubSeq(sorted, 1, k) \o <<x>> \o SubSeq(sorted, k + 1, Len(sorted))

\* Where list.sort(key=final_score, reverse=True) leaves x among the sorted
\* prefix: after every element that is not smaller (the sort is stable).
InsertDesc(sorted, x) ==
    LET k == Cardinality({ j \in 1..Len(sorted) : sorted[j].final_score >= x.final_score })
    IN  SubSeq(sorted, 1, k) \o <<x>> \o SubSeq(sorted, k + 1, Len(sorted))

RECURSIVE SortFrom(_, _, _)
SortFrom(seq, i, sorted) ==
    IF i > Len(seq) THEN sorted ELSE SortFrom(seq, i + 1, InsertDesc(sorted, seq[i]))

\* A sort that leaves the list as it was.
SortDescNoSort(seq) == seq

\* scored.sort(key=lambda x: final_score, reverse=True)
SortDesc(seq) == SortFrom(seq, 1, <<>>)

\* seq[:n] for n >= 0.
Take(seq, n) == SubSeq(seq, 1, Min(n, Len(seq)))

\* The select without the customer filter.
SelectMemoriesAnyCustomer(table, client_id, brand_id, customer_id) ==
    SelectSeq(table, LAMBDA m :
        /\ m.client_id = client_id
        /\ (brand_id # "None" => m.brand_id = brand_id))

\* select(Memory).where(client_id == ...) with the optional brand and customer filters.
SelectMemories(table, client_id, brand_id, customer_id) ==
    SelectSeq(table, LAMBDA m :
        /\ m.client_id = client_id
        /\ (brand_id # "None" => m.brand_id = brand_id)
        /\ (customer_id # "None" => m.customer_id = customer_id))

\* round(x, 4), half to even.
Round4(x) ==
    LET q == x \div 10
        r == x % 10
    IN  IF r < 5 \/ (r = 5 /\ q % 2 = 0) THEN q * 10 ELSE (q + 1) * 10

\* The "scoring" dictionary detailed_memory_search builds from a breakdown.
RoundScoring(s) ==
    [id |-> s.id,
     vector_similarity |-> Round4(s.vector_similarity),
     keyword_score |-> Round4(s.keyword_score),
     combined_score |-> Round4(s.combined_score),
     recency_factor |-> Round4(s.recency_factor),
     importance_factor |-> Round4(s.importance_factor),
     final_score |-> Round4(s.final_score)]

\* What the loop does for one memory it enters, in order: a call of the
\* provider when the memory has no stored embedding, then the call of
\* calculate_similarity unless json.loads raised.
MemoryEvents(memory) ==
    (IF memory.embedding.kind = "none" THEN << <<"embed_memory", memory.id>> >> ELSE <<>>)
        \o (IF memory.embedding.kind = "raw" THEN <<>> ELSE << <<"score", memory.id>> >>)

RECURSIVE LoopEvents(_, _, _)
\* The events of the memories from position i to the last one entered.
LoopEvents(memories, i, reached) ==
    IF i > reached THEN <<>>
    ELSE MemoryEvents(memories[i]) \o LoopEvents(memories, i + 1, reached)

\* The provider calls and scorings of one search in their order: the query is
\* embedded first, then the loop runs over the memories it enters.
SearchEvents(memories, reached) ==
    << <<"embed_query", 0>> >> \o LoopEvents(memories, 1, reached)

\* What a search leaves behind: caught is TRUE when the except branch ran;
\* pool are the ids of the memories fetched, reached how many the loop
\* entered, events what it did, ranked the returned score records, result
\* the returned ids.
SearchOutcome(memories, loop, ranked) ==
    [caught |-> loop.kind = "raise",
     error |-> IF loop.kind = "raise" THEN loop.error ELSE "",
     pool |-> [i \in 1..Len(memories) |-> memories[i].id],
     reached |-> loop.reached,
     events |-> SearchEvents(memories, loop.reached),
     ranked |-> ranked,
     result |-> [i \in 1..Len(ranked) |-> ranked[i].id]]

\* memory_similarity_search that divides by the best score: max() of an empty
\* list raises, and the except branch runs on an empty pool.
MemorySimilaritySearchRaisesOnEmpty(table, p, qa, tape) ==
    LET memories == SelectMemories(table, p.client_id, p.brand_id, p.customer_id)
        loop == IF memories = <<>>
                THEN [kind |-> "raise", error |-> "ValueError", scored |-> <<>>, reached |-> 0]
                ELSE ScoreLoop(p, qa.vec, tape, memories, 1, <<>>)
    IN  SearchOutcome(memories, loop,
                      IF loop.kind = "raise" THEN <<>>
                      ELSE Take(SortDesc(loop.scored), p.limit))

\* memory_similarity_search: embed the query, fetch the scope's memories,
\* score, keep final_score >= threshold, sort descending, cut to limit;
\* any exception is caught and [] returned.
MemorySimilaritySearch(table, p, qa, tape) ==
    LET memories == SelectMemories(table, p.client_id, p.brand_id, p.customer_id)
        loop == ScoreLoop(p, qa.vec, tape, memories, 1, <<>>)
    IN  SearchOutcome(memories, loop,
                      IF loop.kind = "raise" THEN <<>>
                      ELSE Take(SortDesc(loop.scored), p.limit))

\* detailed_memory_search: always hybrid; each kept breakdown is rounded to
\* four decimals, the list sorted by the rounded final_score and cut to limit.
DetailedMemorySearch(table, p, qa, tape) ==
    LET memories == SelectMemories(table, p.client_id, p.brand_id, p.customer_id)
        hp == [p EXCEPT !.hybrid_search = TRUE]
        loop == ScoreLoop(hp, qa.vec, tape, memories, 1, <<>>)
        detailed_results == [i \in 1..Len(loop.scored) |-> RoundScoring(loop.scored[i])]
    IN  SearchOutcome(memories, loop,
                      IF loop.kind = "raise" THEN <<>>
                      ELSE Take(SortDesc(detailed_results), p.limit))

\* ----------------------------------------------------------------- topics

\* common_words of extract_topics_simple.
CommonWords ==
    { <<"t", "h", "e">>, <<"a">>, <<"a", "n">>, <<"a", "n", "d">>,
      <<"o", "r">>, <<"b", "u", "t">>, <<"i", "f">>, <<"t", "h", "e", "n">>,
      <<"e", "l", "s", "e">>, <<"w", "h", "e", "n">>, <<"i", "s">>,
      <<"a", "r", "e">>, <<"w", "a", "s">>, <<"w", "e", "r", "e">>,
      <<"b", "e">>, <<"b", "e", "e", "n">>, <<"b", "e", "i", "n", "g">>,
      <<"h", "a", "v", "e">>, <<"h", "a", "s">>, <<"h", "a", "d">>,
      <<"d", "o">>, <<"d", "o", "e", "s">>, <<"d", "i", "d">>,
      <<"d", "o", "n", "e">>, <<"t", "o">>, <<"f", "r", "o", "m">>,
      <<"b", "y">>, <<"o", "n">>, <<"a", "t">>, <<"i", "n">>,
      <<"f", "o", "r">>, <<"w", "i", "t", "h">>, <<"a", "b", "o", "u", "t">>,
      <<"a", "s">>, <<"o", "f">>, <<"t", "h", "a", "t">>,
      <<"t", "h", "i", "s">>, <<"t", "h", "e", "s", "e">>,
      <<"t", "h", "o", "s", "e">>, <<"i", "t">>, <<"i", "t", "s">> }

\* [word for word in words if word not in common_words and len(word) > 3]
FilteredWords(words) ==
    SelectSeq(words, LAMBDA word : word \notin CommonWords /\ Len(word) > 3)

RECURSIVE CountWords(_, _, _)
\* word_counts after the words from position i on are counted: one entry per
\* distinct word, in the order the words were first met (a dict keeps the
\* insertion order).
CountWords(words, i, word_counts) ==
    IF i > Len(words) THEN word_counts
    ELSE IF \E k \in 1..Len(word_counts) : word_counts[k].word = words[i]
         THEN CountWords(words, i + 1,
                  [k \in 1..Len(word_counts) |->
                      IF word_counts[k].word = words[i]
                      THEN [word |-> words[i], count |-> word_counts[k].count + 1]
                      ELSE word_counts[k]])
         ELSE CountWords(words, i + 1, Append(word_counts, [word |-> words[i], count |-> 1]))

\* An insertion that puts x before the entries of the same count.
InsertByCountBeforeEqual(sorted, x) ==
    LET k == Cardinality({ j \in 1..Len(sorted) : sorted[j].count > x.count })
    IN  SubSeq(sorted, 1, k) \o <<x>> \o SubSeq(sorted, k + 1, Len(sorted))

\* Where sorted(word_counts.items(), key=count, reverse=True) leaves x among
\* the sorted prefix: after every entry whose count is not smaller.
InsertByCount(sorted, x) ==
    LET k == Cardinality({ j \in 1..Len(sorted) : sorted[j].count >= x.count })
    IN  SubSeq(sorted, 1, k) \o <<x>> \o SubSeq(sorted, k + 1, Len(sorted))

RECURSIVE SortByCountFrom(_, _, _)
SortByCountFrom(seq, i, sorted) ==
    IF i > Len(seq) THEN sorted
    ELSE SortByCountFrom(seq, i + 1, InsertByCount(sorted, seq[i]))

\* The words of the first max_topics entries.
TopWords(sorted_words, max_topics) ==
    [k \in 1..Len(Take(sorted_words, max_topics)) |-> sorted_words[k].word]

\* extract_topics_simple(content, max_topics), for max_topics >= 0.
ExtractTopicsSimple(content, max_topics) ==
    TopWords(SortByCountFrom(CountWords(FilteredWords(Split(Lower(content))), 1, <<>>),
                             1, <<>>),
             max_topics)

\* str.strip(): s without its leading and trailing whitespace.
Strip(s) ==
    LET inked == { i \in 1..Len(s) : s[i] # " " }
    IN  IF inked = {} THEN <<>>
        ELSE SubSeq(s, CHOOSE i \in inked : \A j \in inked : i <= j,
                       CHOOSE i \in inked : \A j \in inked : j <= i)

RECURSIVE SplitOnFrom(_, _, _, _, _)
\* str.split(sep) scanning s from position i; cur is the piece being read.
SplitOnFrom(s, sep, i, cur, acc) ==
    IF i > Len(s) THEN Append(acc, cur)
    ELSE IF s[i] = sep THEN SplitOnFrom(s, sep, i + 1, <<>>, Append(acc, cur))
         ELSE SplitOnFrom(s, sep, i + 1, Append(cur, s[i]), acc)

\* str.split(sep): the pieces between the separators, empty ones included.
SplitOn(s, sep) == SplitOnFrom(s, sep, 1, <<>>, <<>>)

\* The topics read off the chat completion's text: split at the commas, each
\* piece stripped, the first max_topics kept.
ParseTopics(topics_text, max_topics) ==
    Take([k \in 1..Len(SplitOn(Strip(topics_text), ",")) |->
             Strip(SplitOn(Strip(topics_text), ",")[k])],
         max_topics)

\* The provider as one extract_key_topics call meets it: no API key set, a
\* chat completion that raises, or one that answers with a text.
NoProvider == [kind |-> "absent", text |-> <<>>]

FailingProvider == [kind |-> "raises", text |-> <<>>]

AnsweringProvider(text) == [kind |-> "answers", text |-> text]

\* The body of extract_key_topics with the except branch left out: the
\* provider's exception reaches the caller.
ExtractKeyTopicsBodyPropagating(content, max_topics, provider) ==
    CASE provider.kind = "absent" -> Return(ExtractTopicsSimple(content, max_topics))
      [] provider.kind = "raises" -> Raise("APIError")
      [] OTHER -> Return(ParseTopics(provider.text, max_topics))

\* The body of extract_key_topics, run when the coroutine is awaited: the
\* word-frequency topics without an API key or when the completion raises,
\* else the topics parsed from the completion.
ExtractKeyTopicsBody(content, max_topics, provider) ==
    CASE provider.kind = "absent" -> Return(ExtractTopicsSimple(content, max_topics))
      [] provider.kind = "raises" -> Return(ExtractTopicsSimple(content, max_topics))
      [] OTHER -> Return(ParseTopics(provider.text, max_topics))

\* ------------------------------------------------------------ connections

\* str(uuid): the text form of a memory id.
StrOfId(id) == <<"uuid", id>>

\* The filter that keeps every id.
FilterOutSourceKeepAll(similar, memory_id) == similar

\* [m for m in similar_memories if str(m.id) != str(memory_id)], on ids.
FilterOutSource(similar, memory_id) ==
    SelectSeq(similar, LAMBDA id : StrOfId(id) # memory_id)

\* The keys of CONNECTION_TYPES.
CONNECTION_TYPES ==
    {"related", "prerequisite", "followup", "contradicts", "elaborates", "summarizes"}

\* indicator in text: text holds indicator as a substring.
Contains(text, indicator) ==
    \E i \in 1..(Len(text) - Len(indicator) + 1) :
        SubSeq(text, i, i + Len(indicator) - 1) = indicator

\* any(indicator in text for indicator in indicators)
AnyIn(indicators, text) == \E indicator \in indicators : Contains(text, indicator)

\* contradiction_indicators
ContradictionIndicators ==
    { <<"h", "o", "w", "e", "v", "e", "r">>,
      <<"b", "u", "t">>,
      <<"i", "n", "s", "t", "e", "a", "d">>,
      <<"c", "o", "n", "t", "r", "a", "r", "y">>,
      <<"d", "i", "s", "a", "g", "r", "e", "e">>,
      <<"o", "p", "p", "o", "s", "i", "t", "e">>,
      <<"u", "n", "l", "i", "k", "e">> }

\* prerequisite_indicators
PrerequisiteIndicators ==
    { <<"f", "i", "r", "s", "t">>,
      <<"b", "e", "f", "o", "r", "e">>,
      <<"p", "r", "i", "o", "r">>,
      <<"f", "o", "u", "n", "d", "a", "t", "i", "o", "n">>,
      <<"b", "a", "s", "i", "s">>,
      <<"f", "u", "n", "d", "a", "m", "e", "n", "t", "a", "l">> }

\* followup_indicators
FollowupIndicators ==
    { <<"n", "e", "x", "t">>,
      <<"t", "h", "e", "n">>,
      <<"a", "f", "t", "e", "r">>,
      <<"f", "o", "l", "l", "o", "w", "u", "p">>,
      <<"f", "o", "l", "l", "o", "w", "i", "n", "g">>,
      <<"s", "u", "b", "s", "e", "q", "u", "e", "n", "t", "l", "y">> }

\* elaboration_indicators
ElaborationIndicators ==
    { <<"d", "e", "t", "a", "i", "l">>,
      <<"s", "p", "e", "c", "i", "f", "i", "c", "a", "l", "l", "y">>,
      <<"e", "l", "a", "b", "o", "r", "a", "t">>,
      <<"e", "x", "p", "a", "n", "d">>,
      <<"m", "o", "r", "e", " ", "o", "n">>,
      <<"f", "u", "r", "t", "h", "e", "r">> }

\* summary_indicators
SummaryIndicators ==
    { <<"s", "u", "m", "m", "a", "r", "y">>,
      <<"c", "o", "n", "c", "l", "u", "s", "i", "o", "n">>,
      <<"o", "v", "e", "r", "v", "i", "e", "w">>,
      <<"i", "n", " ", "s", "h", "o", "r", "t">>,
      <<"t", "o", " ", "s", "u", "m", "m", "a", "r", "i", "z", "e">>,
      <<"i", "n", " ", "b", "r", "i", "e", "f">> }

\* The cue checks of analyze_potential_connection in their order, each
\* overwriting the (type, strength) pair found so far.
ContradictionCue(found, source_lower, target_lower) ==
    IF AnyIn(ContradictionIndicators, source_lower)
           \/ AnyIn(ContradictionIndicators, target_lower)
    THEN <<"contradicts", 7 * (Scale \div 10)>> ELSE found

PrerequisiteCue(found, source_lower) ==
    IF AnyIn(PrerequisiteIndicators, source_lower)
    THEN <<"prerequisite", 8 * (Scale \div 10)>> ELSE found

FollowupCue(found, source_lower) ==
    IF AnyIn(FollowupIndicators, source_lower)
    THEN <<"followup", 8 * (Scale \div 10)>> ELSE found

ElaborationCue(found, source_lower) ==
    IF AnyIn(ElaborationIndicators, source_lower)
    THEN <<"elaborates", 9 * (Scale \div 10)>> ELSE found

SummaryCue(found, source_lower) ==
    IF AnyIn(SummaryIndicators, source_lower)
    THEN <<"summarizes", 9 * (Scale \div 10)>> ELSE found

\* The default pair: "related" with strength min(0.4 + Jaccard similarity, 1.0).
RelatedByTopics(source_topics, target_topics) ==
    <<"related",
      Min(4 * (Scale \div 10)
              + (IF source_topics \cup target_topics = {} THEN 0
                 ELSE (Cardinality(source_topics \cap target_topics) * Scale)
                          \div Cardinality(source_topics \cup target_topics)),
          Scale)>>

\* if len(common_topics) < 2 and connection_type == "related": cap at 0.5
LimitWeakRelation(found, source_topics, target_topics) ==
    IF Cardinality(source_topics \cap target_topics) < 2 /\ found[1] = "related"
    THEN <<"related", Min(found[2], 5 * (Scale \div 10))>> ELSE found

\* The body of analyze_potential_connection from the two topic sets on.
ConnectionRules(source_topics, target_topics, source_content, target_content) ==
    LimitWeakRelation(
        SummaryCue(
            ElaborationCue(
                FollowupCue(
                    PrerequisiteCue(
                        ContradictionCue(RelatedByTopics(source_topics, target_topics),
                                         Lower(source_content), Lower(target_content)),
                        Lower(source_content)),
                    Lower(source_content)),
                Lower(source_content)),
            Lower(source_content)),
        source_topics, target_topics)

\* extract_key_topics(content): the function is async def, so the call
\* returns a coroutine object and runs nothing.
ExtractKeyTopics(content) == [kind |-> "coroutine", content |-> content]

\* set(x): a coroutine object is not iterable.
SetOf(x) == IF x.kind = "coroutine" THEN Raise("TypeError") ELSE Return(x.value)

\* analyze_potential_connection: the two set(extract_key_topics(...)) calls are
\* made without await, so the first raises TypeError before any cue is
\* looked at.
AnalyzePotentialConnection(source_memory, target_memory) ==
    IF SetOf(ExtractKeyTopics(source_memory.content)).kind = "raise"
    THEN SetOf(ExtractKeyTopics(source_memory.content))
    ELSE IF SetOf(ExtractKeyTopics(target_memory.content)).kind = "raise"
    THEN SetOf(ExtractKeyTopics(target_memory.content))
    ELSE Return(ConnectionRules(SetOf(ExtractKeyTopics(source_memory.content)).value,
                                SetOf(ExtractKeyTopics(target_memory.content)).value,
                                source_memory.content, target_memory.content))

\* Where suggestions.sort(key=connection_strength, reverse=True) leaves x.
InsertByStrength(sorted, x) ==
    LET k == Cardinality({ j \in 1..Len(sorted) :
                             sorted[j].connection_strength >= x.connection_strength })
    IN  SubSeq(sorted, 1, k) \o <<x>> \o SubSeq(sorted, k + 1, Len(sorted))

RECURSIVE SortSuggestionsFrom(_, _, _)
SortSuggestionsFrom(seq, i, sorted) ==
    IF i > Len(seq) THEN sorted
    ELSE SortSuggestionsFrom(seq, i + 1, InsertByStrength(sorted, seq[i]))

\* The arguments find_memory_connections passes to memory_similarity_search.
ConnectionSearchParams(source_memory, limit, threshold) ==
    [query |-> source_memory.content, client_id |-> source_memory.client_id,
     brand_id |-> source_memory.brand_id, customer_id |-> "None",
     limit |-> limit * 2, threshold |-> threshold, hybrid_search |-> TRUE,
     vector_weight |-> 7, keyword_weight |-> 3]

\* The memory with the given id, as a sequence of at most one row.
SourceMemory(table, memory_id) ==
    SelectSeq(table, LAMBDA m : StrOfId(m.id) = memory_id)

\* The suggestions built from the analyses of the targets, sorted by
\* strength; the first exception of an analysis leaves the function.
BuildSuggestions(source_memory, similar, targets, analyses) ==
    IF \E i \in 1..Len(targets) : analyses[i].kind = "raise"
    THEN [kind |-> "raise", found |-> TRUE, similar |-> similar,
          targets |-> targets, suggestions |-> <<>>]
    ELSE [kind |-> "return", found |-> TRUE, similar |-> similar,
          targets |-> targets,
          suggestions |->
              SortSuggestionsFrom(
                  [i \in 1..Len(targets) |->
                      [source_memory_id |-> StrOfId(source_memory.id),
                       target_memory_id |-> StrOfId(targets[i]),
                       connection_type |-> analyses[i].value[1],
                       connection_strength |-> analyses[i].value[2]]],
                  1, <<>>)]

\* for target_memory in similar_memories[:limit]: analyse and append.
AnalyzeTargets(table, source_memory, similar, targets) ==
    BuildSuggestions(source_memory, similar, targets,
        [i \in 1..Len(targets) |->
            AnalyzePotentialConnection(source_memory, table[targets[i]])])

\* The part of find_memory_connections after the search: drop the source,
\* keep the first limit targets, analyse them.
SuggestFromSimilar(table, source_memory, memory_id, limit, similar) ==
    AnalyzeTargets(table, source_memory, similar,
                   Take(FilterOutSource(similar, memory_id), limit))

\* find_memory_connections: look the source up, search with its content,
\* drop the source, analyse the first limit targets, sort by strength.
FindMemoryConnections(table, memory_id, limit, threshold, qa, tape) ==
    IF SourceMemory(table, memory_id) = <<>>
    THEN [kind |-> "return", found |-> FALSE, similar |-> <<>>, targets |-> <<>>,
          suggestions |-> <<>>]
    ELSE SuggestFromSimilar(table, SourceMemory(table, memory_id)[1], memory_id, limit,
             MemorySimilaritySearch(table,
                 ConnectionSearchParams(SourceMemory(table, memory_id)[1], limit, threshold),
                 qa, tape).result)

\* ------------------------------------------------------------- importance

\* important_keywords of calculate_importance_score.
ImportantKeywords ==
    { <<"u", "r", "g", "e", "n", "t">>,
      <<"c", "r", "i", "t", "i", "c", "a", "l">>,
      <<"i", "m", "p", "o", "r", "t", "a", "n", "t">>,
      <<"k", "e", "y">>,
      <<"s", "i", "g", "n", "i", "f", "i", "c", "a", "n", "t">>,
      <<"s", "t", "r", "a", "t", "e", "g", "i", "c">>,
      <<"p", "r", "i", "o", "r", "i", "t", "y">>,
      <<"e", "s", "s", "e", "n", "t", "i", "a", "l">>,
      <<"c", "r", "u", "c", "i", "a", "l">> }

\* calculate_importance_score adding 0.1 for every keyword found (the break
\* left out).
CalculateImportanceScoreEveryKeyword(content) ==
    LET by_length == IF Len(content) < 100 THEN 4
                     ELSE IF Len(content) > 500 THEN 6 ELSE 5
        found == Cardinality({ keyword \in ImportantKeywords : Contains(Lower(content), keyword) })
        score == by_length + found
    IN  (IF score < 1 THEN 1 ELSE Min(score, 10)) * (Scale \div 10)

\* calculate_importance_score: 0.5, less 0.1 below 100 characters, plus 0.1
\* above 500, plus 0.1 when a keyword is found, kept within [0.1, 1.0].
CalculateImportanceScore(content) ==
    LET by_length == IF Len(content) < 100 THEN 4
                     ELSE IF Len(content) > 500 THEN 6 ELSE 5
        score == IF AnyIn(ImportantKeywords, Lower(content)) THEN by_length + 1
                 ELSE by_length
    IN  (IF score < 1 THEN 1 ELSE Min(score, 10)) * (Scale \div 10)

\* ------------------------------------------------------------------ calls

\* The queries, thresholds and parameter records callers pass: both limits
\* and the default weights 0.7 / 0.3 over a whole tenant, the largest limit in
\* every scope, equal weights over a whole tenant, one customer of a tenant.
Queries == { <<>>, <<"a">>, <<"b", " ", "A">> }

Thresholds == { 0, (Scale \div 10) * 6 }

SearchParams ==
    [query : Queries, client_id : {"c1"}, brand_id : {"None"},
     customer_id : {"None"}, limit : {1, MaxLimit}, threshold : Thresholds,
     hybrid_search : BOOLEAN, vector_weight : {7}, keyword_weight : {3}]
    \cup
    [query : Queries, client_id : {"c1"}, brand_id : {"b1"},
     customer_id : {"None"}, limit : {MaxLimit}, threshold : Thresholds,
     hybrid_search : BOOLEAN, vector_weight : {7}, keyword_weight : {3}]
    \cup
    [query : Queries, client_id : {"c2"}, brand_id : {"None"},
     customer_id : {"None"}, limit : {MaxLimit}, threshold : Thresholds,
     hybrid_search : BOOLEAN, vector_weight : {7}, keyword_weight : {3}]
    \cup
    [query : Queries, client_id : {"c1"}, brand_id : {"None"},
     customer_id : {"None"}, limit : {MaxLimit}, threshold : Thresholds,
     hybrid_search : BOOLEAN, vector_weight : {5}, keyword_weight : {5}]
    \cup
    [query : Queries, client_id : {"c1"}, brand_id : {"None"},
     customer_id : {"k1"}, limit : {MaxLimit}, threshold : {0},
     hybrid_search : {TRUE}, vector_weight : {7}, keyword_weight : {3}]

\* The tape entry of a memory the provider was never asked about.
NotAsked == [ok |-> TRUE, vec |-> <<>>]

\* The ids of the memories that have no stored embedding.
Unembedded(memories) ==
    { memories[i].id : i \in { j \in 1..Len(memories) : memories[j].embedding.kind = "none" } }

\* The provider's answers during one search over memories: one per memory
\* without a stored embedding that the loop enters, none for the others.
Tapes(table, p, qa) ==
    LET memories == SelectMemories(table, p.client_id, p.brand_id, p.customer_id)
        ids == Unembedded(memories)
        all == UNION { MemoryAnswers(table[id].content) : id \in ids } \cup { NotAsked }
        asked(t) ==
            LET reached == ScoreLoop(p, qa.vec, t, memories, 1, <<>>).reached
            IN  { memories[i].id : i \in 1..reached } \cap ids
    IN  { t \in [ids -> all] :
            LET entered == asked(t)
            IN  \A id \in ids :
                    IF id \in entered THEN t[id] \in MemoryAnswers(table[id].content)
                    ELSE t[id] = NotAsked }

\* An engine that keeps the embeddings it obtains: every memory the provider
\* was asked about gets the answer as its stored embedding.
RecordsAfterStoringEmbeddings(table, tape) ==
    [i \in 1..Len(table) |->
        IF i \in DOMAIN tape /\ tape[i] # NotAsked
        THEN [table[i] EXCEPT !.embedding = JsonEmbedding(tape[i].vec)]
        ELSE table[i]]

\* The rows after an engine call that got the provider's answers in tape: the
\* functions assign no attribute of a Memory, add nothing to the session and
\* do not commit.
RecordsAfter(table, tape) == table

NoCall == [op |-> "none"]

NoFn == [op |-> "none"]

\* One memory_similarity_search call with arguments from params.
SearchWith(params) ==
    /\ call = NoCall
    /\ \E p \in params :
           \E qa \in QueryAnswers(p.query) :
               \E tape \in Tapes(db, p, qa) :
                   /\ call' = [op |-> "search", p |-> p, qa |-> qa, tape |-> tape,
                               out |-> MemorySimilaritySearch(db, p, qa, tape)]
                   /\ db' = RecordsAfter(db, tape)
    /\ UNCHANGED <<again, fn>>

\* A call of memory_similarity_search with any of the arguments callers pass.
Search == SearchWith(SearchParams)

\* A call of detailed_memory_search.
DetailedSearch ==
    /\ call = NoCall
    /\ \E p \in { q \in SearchParams : q.hybrid_search } :
        \E qa \in QueryAnswers(p.query) :
            \E tape \in Tapes(db, p, qa) :
                /\ call' = [op |-> "detailed", p |-> p, qa |-> qa, tape |-> tape,
                            out |-> DetailedMemorySearch(db, p, qa, tape)]
                /\ db' = RecordsAfter(db, tape)
                /\ UNCHANGED <<again, fn>>

\* One find_memory_connections call whose source exists: the provider
\* answers for the search it makes.
ConnectionsCall(memory_id, limit, threshold, sp) ==
    \E qa \in QueryAnswers(sp.query) :
        \E tape \in Tapes(db, sp, qa) :
            /\ call' = [op |-> "connections",
                        p |-> [memory_id |-> memory_id, limit |-> limit, threshold |-> threshold],
                        qa |-> qa, tape |-> tape,
                        out |-> FindMemoryConnections(db, memory_id, limit, threshold, qa, tape)]
            /\ db' = RecordsAfter(db, tape)

\* A call of find_memory_connections for one memory id.
FindConnections ==
    /\ call = NoCall
    /\ \E id \in 1..MaxPool, limit \in {1, MaxLimit}, threshold \in Thresholds :
           IF SourceMemory(db, StrOfId(id)) = <<>>
           THEN /\ call' = [op |-> "connections",
                            p |-> [memory_id |-> StrOfId(id), limit |-> limit,
                                   threshold |-> threshold],
                            qa |-> NotAsked, tape |-> <<>>,
                            out |-> FindMemoryConnections(db, StrOfId(id), limit, threshold,
                                                          NotAsked, <<>>)]
                /\ db' = RecordsAfter(db, <<>>)
           ELSE ConnectionsCall(StrOfId(id), limit, threshold,
                    ConnectionSearchParams(SourceMemory(db, StrOfId(id))[1], limit, threshold))
    /\ UNCHANGED <<again, fn>>

\* The same search once more: same table, same arguments, a fresh run of the provider.
SearchAgain ==
    /\ call.op = "search"
    /\ again = NoCall
    /\ \E qa \in QueryAnswers(call.p.query) :
           \E tape \in Tapes(db, call.p, qa) :
               /\ again' = [op |-> "search", p |-> call.p, qa |-> qa, tape |-> tape,
                            out |-> MemorySimilaritySearch(db, call.p, qa, tape)]
               /\ db' = RecordsAfter(db, tape)
               /\ UNCHANGED <<call, fn>>

\* The memories table is any table of the scenario; no engine call made yet.
Init ==
    /\ db \in Tables
    /\ call = NoCall
    /\ again = NoCall
    /\ fn = NoFn

\* The engine call has returned to its caller; its records are dropped.
Respond ==
    /\ call # NoCall
    /\ call' = NoCall
    /\ again' = NoCall
    /\ UNCHANGED <<db, fn>>

Next == Search \/ DetailedSearch \/ FindConnections \/ Respond

Spec == Init /\ [][Next]_vars

\* ------------------------------------------------- the functions on their own

\* The vectors and strings the pure functions are applied to.
Vectors == UNION { VecsOfLen(n) : n \in 0..MaxVecLen }

Strings == UNION { [1..n -> Chars] : n \in 0..MaxStrLen }

InitVec ==
    /\ db = <<>>
    /\ call = NoCall
    /\ again = NoCall
    /\ fn \in { [op |-> "vectors", a |-> a, b |-> b, out |-> Return(0)] : a \in Vectors, b \in Vectors }

\* calculate_similarity(a, b)
ApplySimilarity ==
    /\ fn.op = "vectors"
    /\ fn' = [fn EXCEPT !.op = "calculate_similarity", !.out = CalculateSimilarity(fn.a, fn.b)]
    /\ UNCHANGED <<db, call, again>>

SpecVec == InitVec /\ [][ApplySimilarity]_vars

InitLex ==
    /\ db = <<>>
    /\ call = NoCall
    /\ again = NoCall
    /\ fn \in { [op |-> "strings", a |-> q, b |-> d, out |-> 0] : q \in Strings, d \in Strings }

\* calculate_bm25_score(query, text)
ApplyBm25 ==
    /\ fn.op = "strings"
    /\ fn' = [fn EXCEPT !.op = "calculate_bm25_score", !.out = CalculateBm25Score(fn.a, fn.b)]
    /\ UNCHANGED <<db, call, again>>

SpecLex == InitLex /\ [][ApplyBm25]_vars

\* The memories analyze_potential_connection is applied to on its own: the
\* content, and the topics extract_key_topics resolves to for it once awaited
\* (those of its word-frequency fallback).
ConnectionTexts ==
    { [content |-> <<"m", "a", "r", "k", "e", "t", "i", "n", "g", " ", "s", "u", "m", "m", "e", "r">>,
       topics |-> {"marketing", "summer"}],
      [content |-> <<"m", "a", "r", "k", "e", "t", "i", "n", "g", " ", "l", "a", "u", "n", "c", "h">>,
       topics |-> {"marketing", "launch"}],
      [content |-> <<"m", "a", "r", "k", "e", "t", "i", "n", "g", " ", "s", "u", "m", "m", "e", "r", " ", "l", "a", "u", "n", "c", "h">>,
       topics |-> {"marketing", "summer", "launch"}],
      [content |-> <<"H", "o", "w", "e", "v", "e", "r", " ", "m", "a", "r", "k", "e", "t", "i", "n", "g">>,
       topics |-> {"however", "marketing"}],
      [content |-> <<"h", "o", "w", "e", "v", "e", "r", " ", "f", "i", "r", "s", "t">>,
       topics |-> {"however", "first"}],
      [content |-> <<"n", "e", "x", "t", " ", "s", "u", "m", "m", "a", "r", "y">>,
       topics |-> {"next", "summary"}],
      [content |-> <<"d", "e", "t", "a", "i", "l", " ", "t", "h", "e", "n">>,
       topics |-> {"detail"}],
      [content |-> <<>>,
       topics |-> {}] }

InitConn ==
    /\ db = <<>>
    /\ call = NoCall
    /\ again = NoCall
    /\ fn \in { [op |-> "memories", source |-> a, target |-> b, out |-> Return(0)] :
                  a \in ConnectionTexts, b \in ConnectionTexts }

\* await analyze_potential_connection(source_memory, target_memory)
ApplyAnalyze ==
    /\ fn.op = "memories"
    /\ fn' = [fn EXCEPT !.op = "analyze_potential_connection",
                        !.out = AnalyzePotentialConnection(fn.source, fn.target)]
    /\ UNCHANGED <<db, call, again>>

SpecConn == InitConn /\ [][ApplyAnalyze]_vars

\* Most words in a text handed to the topic extraction on its own.
MaxWords == 4

\* The words the texts are made of: a word in two cases, a common word longer
\* than three characters, a short word, two more words.
Vocabulary ==
    { <<"P", "l", "a", "n">>,
      <<"p", "l", "a", "n">>,
      <<"t", "e", "a", "m">>,
      <<"t", "h", "e", "n">>,
      <<"c", "a", "t">>,
      <<"g", "o", "a", "l">> }

RECURSIVE Join(_)
\* " ".join(words)
Join(words) ==
    IF Len(words) = 0 THEN <<>>
    ELSE IF Len(words) = 1 THEN words[1]
    ELSE words[1] \o <<" ">> \o Join(Tail(words))

TopicTexts == UNION { { Join(words) : words \in [1..n -> Vocabulary] } : n \in 0..MaxWords }

\* The max_topics callers pass.
TopicLimits == {1, 2}

\* The texts a chat completion answers with.
TopicReplies ==
    { <<" ", "p", "l", "a", "n", ",", " ", "T", "e", "a", "m", " ", ",", "g", "o", "a", "l">>,
      <<"g", "o", "a", "l">> }

\* The provider states an extract_key_topics call may meet.
Providers == { NoProvider, FailingProvider } \cup { AnsweringProvider(t) : t \in TopicReplies }

InitTopics ==
    /\ db = <<>>
    /\ call = NoCall
    /\ again = NoCall
    /\ fn \in { [op |-> "text", content |-> c, max_topics |-> n, provider |-> NoProvider,
                 out |-> Return(<<>>)] : c \in TopicTexts, n \in TopicLimits }

\* extract_topics_simple(content, max_topics)
ApplyExtractTopicsSimple ==
    /\ fn.op = "text"
    /\ fn' = [fn EXCEPT !.op = "extract_topics_simple",
                        !.out = Return(ExtractTopicsSimple(fn.content, fn.max_topics))]
    /\ UNCHANGED <<db, call, again>>

\* await extract_key_topics(content, max_topics)
ApplyExtractKeyTopics ==
    /\ fn.op = "text"
    /\ \E provider \in Providers :
           fn' = [fn EXCEPT !.op = "extract_key_topics", !.provider = provider,
                            !.out = ExtractKeyTopicsBody(fn.content, fn.max_topics, provider)]
    /\ UNCHANGED <<db, call, again>>

SpecTopics == InitTopics /\ [][ApplyExtractTopicsSimple \/ ApplyExtractKeyTopics]_vars

\* The texts calculate_importance_score is applied to on its own: an opening
\* phrase filled up with full stops to a length around the two length marks.
Openings ==
    { <<>>,
      <<"u", "r", "g", "e", "n", "t">>,
      <<"T", "h", "e", " ", "K", "E", "Y">>,
      <<"U", "r", "g", "e", "n", "t", " ", "k", "e", "y">>,
      <<"m", "o", "n", "k", "e", "y">>,
      <<"c", "a", "t">> }

Lengths == {11, 50, 99, 100, 101, 300, 499, 500, 501, 502}

Fill(opening, n) == opening \o [i \in 1..(n - Len(opening)) |-> "."]

ImportanceTexts == { Fill(opening, n) : opening \in Openings, n \in Lengths }

InitImportance ==
    /\ db = <<>>
    /\ call = NoCall
    /\ again = NoCall
    /\ fn \in { [op |-> "content", content |-> c, out |-> 0] : c \in ImportanceTexts }

\* await calculate_importance_score(content)
ApplyImportance ==
    /\ fn.op = "content"
    /\ fn' = [fn EXCEPT !.op = "calculate_importance_score",
                        !.out = CalculateImportanceScore(fn.content)]
    /\ UNCHANGED <<db, call, again>>

SpecImportance == InitImportance /\ [][ApplyImportance]_vars

\* The arguments of the searches that are repeated: hybrid, the whole tenant,
\* the default threshold and weights, the largest limit.
RepeatParams ==
    { p \in SearchParams :
        /\ p.client_id = "c1" /\ p.brand_id = "None" /\ p.limit = MaxLimit
        /\ p.threshold > 0 /\ p.vector_weight = 7 /\ p.hybrid_search }

SearchFirst == SearchWith(RepeatParams)

\* A search and the same search repeated.
NextRepeat == SearchFirst \/ SearchAgain \/ Respond

SpecRepeat == Init /\ [][NextRepeat]_vars

\* ----------------------------------------------------------------- claims

\* The recorded call is a search / a detailed search / a connections call.
IsSearch == call.op = "search"

IsDetailed == call.op = "detailed"

IsConnections == call.op = "connections"

\* The final_score the recorded call's inputs give memory id.
FinalScoreOf(c, id) ==
    ScoreMemory(c.p, c.qa.vec, db[id], c.tape).value.final_score

\* C1: the list search returns is ordered by final_score descending and
\* every returned memory has final_score >= threshold.
C1_SearchSortedAboveThreshold ==
    IsSearch =>
        /\ \A i \in 1..Len(call.out.result) :
               FinalScoreOf(call, call.out.result[i]) >= call.p.threshold
        /\ \A i \in 1..(Len(call.out.result) - 1) :
               FinalScoreOf(call, call.out.result[i])
                   >= FinalScoreOf(call, call.out.result[i + 1])

\* C1 witness: a search returned two memories with different scores in the
\* reverse of their table order, above a positive threshold.
C1_Witness ==
    /\ IsSearch
    /\ call.p.threshold > 0
    /\ call.out.result = <<2, 1>>
    /\ FinalScoreOf(call, 2) > FinalScoreOf(call, 1)

\* The recorded tape with an answer of the provider for every memory it was
\* not asked about.
CompletedTape(c) ==
    [id \in DOMAIN c.tape |->
        IF c.tape[id] = NotAsked
        THEN [ok |-> TRUE, vec |-> ProviderEmbed(db[id].content)]
        ELSE c.tape[id]]

\* The table without the memories of the call's pool whose scoring raises.
WithoutFailing(c) ==
    SelectSeq(db, LAMBDA m :
        (\E i \in 1..Len(c.out.pool) : c.out.pool[i] = m.id) =>
            ScoreMemory(c.p, c.qa.vec, m, CompletedTape(c)).kind = "return")

\* C2: a candidate whose scoring raises is skipped alone; the search returns
\* what it returns on the pool without that candidate.
C2_FailingCandidateIsolated ==
    /\ IsSearch =>
           call.out.result
               = MemorySimilaritySearch(WithoutFailing(call), call.p, call.qa,
                                        CompletedTape(call)).result
    /\ IsDetailed =>
           call.out.result
               = DetailedMemorySearch(WithoutFailing(call), call.p, call.qa,
                                      CompletedTape(call)).result

\* C3: a candidate without a stored embedding for which the provider failed
\* is scored with vector_similarity 0, so its combined_score is
\* keyword_score * keyword_weight in hybrid mode and 0 otherwise.
C3_ProviderFailureScoresZero ==
    IsSearch =>
        \A id \in DOMAIN call.tape :
            (call.tape[id] # NotAsked /\ ~call.tape[id].ok) =>
                LET s == ScoreMemory(call.p, call.qa.vec, db[id], call.tape).value
                IN  /\ s.vector_similarity = 0
                    /\ s.combined_score
                           = IF call.p.hybrid_search
                             THEN (s.keyword_score * call.p.keyword_weight) \div 10
                             ELSE 0

\* C4: find_memory_connections analyses no target whose id is the source's
\* and returns no suggestion whose target is the source.
C4_SourceNeverSuggested ==
    IsConnections =>
        /\ \A i \in 1..Len(call.out.targets) :
               StrOfId(call.out.targets[i]) # call.p.memory_id
        /\ \A i \in 1..Len(call.out.suggestions) :
               call.out.suggestions[i].target_memory_id # call.p.memory_id

\* C4 witness: the search made for the source returned the source itself, at
\* rank 2, and the source was dropped from the targets.
C4_Witness ==
    /\ IsConnections
    /\ call.out.found
    /\ Len(call.out.similar) = 2
    /\ StrOfId(call.out.similar[2]) = call.p.memory_id
    /\ call.out.targets = <<call.out.similar[1]>>

\* Every answer the call got from the provider was a successful one.
ProviderAnswered(c) ==
    /\ c.qa.ok
    /\ \A id \in DOMAIN c.tape : c.tape[id].ok

C6_EmptyPoolEmptyResult ==
    ((IsSearch \/ IsDetailed) /\ call.out.pool = <<>>) =>
        /\ call.out.result = <<>>
        /\ ~call.out.caught

\* C6 witness: a search whose scope holds no memory of a table that is not empty.
C6_Witness ==
    /\ IsSearch
    /\ db # <<>>
    /\ call.out.pool = <<>>
    /\ call.out.result = <<>>

\* C7: a search with a query that has no terms returns an empty list.
C7_EmptyQueryEmptyResult ==
    (IsSearch /\ Terms(call.p.query) = {}) =>
        /\ call.out.result = <<>>
        /\ ~call.out.caught

\* C8: calculate_similarity on two vectors of different lengths raises and
\* returns no number, also when one of them is empty.
C8_LengthMismatchRaises ==
    (fn.op = "calculate_similarity" /\ Len(fn.a) # Len(fn.b)) => fn.out.kind = "raise"

\* C8 witness: calculate_similarity was applied to an empty and a non-empty vector.
C8_Witness ==
    /\ fn.op = "calculate_similarity"
    /\ fn.a = <<>>
    /\ Len(fn.b) > 0
    /\ fn.out.kind = "raise"

\* C9 as stated: calculate_similarity(v, v) is 1.0 for every v of length > 0.
C9_SelfSimilarityIsOne ==
    (fn.op = "calculate_similarity" /\ fn.a = fn.b /\ Len(fn.a) > 0) =>
        fn.out = Return(Scale)

\* C9 amended: calculate_similarity(v, v) is 1.0 for every v of length > 0
\* with a component that is not 0, and 0.0 for the all-zero v.
C9_SelfSimilarityNonZero ==
    (fn.op = "calculate_similarity" /\ fn.a = fn.b /\ Len(fn.a) > 0) =>
        fn.out = Return(IF Dot(fn.a, fn.a) # 0 THEN Scale ELSE 0)

\* C9 witness: calculate_similarity(v, v) for a v with two non-zero components.
C9_Witness ==
    /\ fn.op = "calculate_similarity"
    /\ fn.a = fn.b
    /\ Dot(fn.a, fn.a) >= 2
    /\ fn.out = Return(Scale)

\* C10: calculate_bm25_score(q, d) is in [0, 1] for non-empty q and d, and
\* calculate_bm25_score(q, "") is 0.
C10_LexicalScoreRange ==
    fn.op = "calculate_bm25_score" =>
        /\ (fn.a # <<>> /\ fn.b # <<>>) => (0 <= fn.out /\ fn.out <= Scale)
        /\ fn.b = <<>> => fn.out = 0

\* C10 witness: a score above 0 for a non-empty query and document.
C10_Witness ==
    /\ fn.op = "calculate_bm25_score"
    /\ fn.a # <<>>
    /\ fn.b # <<>>
    /\ fn.out > 0

\* The lower-cased whitespace-separated tokens of s: the maximal runs without
\* a space, read off the positions of s.
TokenSet(s) ==
    { SubSeq(Lower(s), ij[1], ij[2]) : ij \in
        { ij \in (1..Len(s)) \X (1..Len(s)) :
            /\ ij[1] <= ij[2]
            /\ \A k \in ij[1]..ij[2] : s[k] # " "
            /\ (ij[1] = 1 \/ s[ij[1] - 1] = " ")
            /\ (ij[2] = Len(s) \/ s[ij[2] + 1] = " ") } }

\* C11: calculate_bm25_score(query, document) is
\* (|Q \cap D| / |Q|) * (0.5 + 0.5 * min(|D|, 100) / 100) for the token sets
\* Q and D of query and document, and 0 when Q is empty.
C11_LexicalScoreFormula ==
    fn.op = "calculate_bm25_score" =>
        LET Q == TokenSet(fn.a)
            D == TokenSet(fn.b)
            exact == Cardinality(Q \cap D) * (100 + Min(Cardinality(D), 100)) * Scale
        IN  /\ Q = {} => fn.out = 0
            /\ Q # {} =>
                   /\ fn.out * 200 * Cardinality(Q) <= exact
                   /\ exact < (fn.out + 1) * 200 * Cardinality(Q)

\* C11 witness: the query "a A" has the one term "a", found in the document
\* "a" of one term: 1/1 * (0.5 + 0.5 * 1/100) = 0.505.
C11_Witness ==
    /\ fn.op = "calculate_bm25_score"
    /\ fn.a = <<"a", " ", "A">>
    /\ fn.b = <<"a">>
    /\ fn.out = 505 * (Scale \div 1000)

\* The final_score the claimed formula gives memory id in hybrid mode, from
\* the similarity and lexical score of the memory and the columns of its row.
HybridFormula(c, id) ==
    LET vs == CalculateSimilarity(c.qa.vec, MemoryEmbedding(db[id], c.tape).value).value
        ks == CalculateBm25Score(c.p.query, db[id].content)
        d == IF db[id].updated_gap = <<>> THEN 0 ELSE db[id].updated_gap[1]
        importance == IF db[id].importance_score = <<>> THEN 5
                      ELSE db[id].importance_score[1]
    IN  (((((vs * c.p.vector_weight + ks * c.p.keyword_weight) \div 10)
            * (3650 - Min(d, 365))) \div 3650) * (80 + 2 * importance)) \div 100

\* C12: in hybrid mode every candidate's final_score is
\* (vector_similarity * vector_weight + keyword_score * keyword_weight)
\* * recency_factor * (0.8 + importance * 0.2), importance read as 0.5 when
\* the row has none; 0.9, 1.0, weights 0.7 / 0.3, recency 1.0 and importance
\* 1.0 give 0.93.
C12_HybridFinalScore ==
    /\ FinalScore(CombinedScore(TRUE, 9 * (Scale \div 10), Scale, 7, 3), 0, 10)
           = 93 * (Scale \div 100)
    /\ (IsSearch /\ call.p.hybrid_search) =>
           \A i \in 1..Len(call.out.ranked) :
               call.out.ranked[i].final_score = HybridFormula(call, call.out.ranked[i].id)
    /\ IsDetailed =>
           \A i \in 1..Len(call.out.ranked) :
               call.out.ranked[i].final_score
                   = Round4(HybridFormula(call, call.out.ranked[i].id))

\* C12 witness: a hybrid search returned a memory without importance_score
\* whose vector similarity is 1.0 and keyword score 0.505:
\* (0.7 + 0.1515) * 1.0 * 0.9 = 0.76635.
C12_Witness ==
    /\ IsSearch
    /\ call.p.hybrid_search
    /\ \E i \in 1..Len(call.out.ranked) :
           /\ db[call.out.ranked[i].id].importance_score = <<>>
           /\ call.out.ranked[i].vector_similarity = Scale
           /\ call.out.ranked[i].keyword_score = 505 * (Scale \div 1000)
           /\ call.out.ranked[i].final_score = 76635

\* The recorded search with other weights / with another query text for the
\* same query embedding.
WithWeights(c, vw, kw) ==
    MemorySimilaritySearch(db, [c.p EXCEPT !.vector_weight = vw, !.keyword_weight = kw],
                           c.qa, c.tape)

WithQueryText(c, q) ==
    MemorySimilaritySearch(db, [c.p EXCEPT !.query = q], c.qa, c.tape)

\* C13: with hybrid_search false every keyword_score is 0 and combined_score
\* is the vector similarity, and the search returns the same whatever the
\* weights are and whatever terms the query shares with the contents.
C13_VectorOnlyIgnoresWeights ==
    (IsSearch /\ ~call.p.hybrid_search) =>
        /\ \A i \in 1..Len(call.out.ranked) :
               /\ call.out.ranked[i].keyword_score = 0
               /\ call.out.ranked[i].combined_score = call.out.ranked[i].vector_similarity
        /\ WithWeights(call, 10 - call.p.vector_weight, 10 - call.p.keyword_weight)
               = call.out
        /\ \A q \in Queries : WithQueryText(call, q) = call.out

\* C13 witness: a vector-only search returned a memory whose content shares a
\* term with the query, and the hybrid search of the same inputs scores it
\* differently.
C13_Witness ==
    /\ IsSearch
    /\ ~call.p.hybrid_search
    /\ \E i \in 1..Len(call.out.ranked) :
           /\ CalculateBm25Score(call.p.query, db[call.out.ranked[i].id].content) > 0
           /\ call.out.ranked[i].final_score > 0
           /\ call.out.ranked[i].final_score
                  # HybridFormula(call, call.out.ranked[i].id)

\* 3650 * (1.0 - min(d, 365) / 365 * 0.1) for the row of memory id.
RecencyOf(id) ==
    3650 - Min(IF db[id].updated_gap = <<>> THEN 0 ELSE db[id].updated_gap[1], 365)

\* C14: recency_factor is 1.0 - min(d, 365) / 365 * 0.1 for the d whole days
\* from created_at to updated_at: 1.0 for a row never modified or without
\* updated_at, 0.9 for every d >= 365, and within [0.9, 1.0] for every
\* scored row.
C14_RecencyFactor ==
    (IsSearch \/ IsDetailed) =>
        \A i \in 1..Len(call.out.ranked) :
            LET s == call.out.ranked[i]
                gap == db[s.id].updated_gap
            IN  /\ 9 * (Scale \div 10) <= s.recency_factor
                /\ s.recency_factor <= Scale
                /\ (gap = <<>> \/ gap = <<0>>) => s.recency_factor = Scale
                /\ (gap # <<>> /\ gap[1] >= 365) => s.recency_factor = 9 * (Scale \div 10)
                /\ IsSearch =>
                       /\ s.recency_factor * 3650 <= Scale * RecencyOf(s.id)
                       /\ Scale * RecencyOf(s.id) < (s.recency_factor + 1) * 3650
                /\ IsDetailed =>
                       s.recency_factor = Round4((Scale * RecencyOf(s.id)) \div 3650)

\* C14 witness: a search returned a row updated 400 days after its creation
\* and a row without updated_at: factors 0.9 and 1.0.
C14_Witness ==
    /\ IsSearch
    /\ \E i, j \in 1..Len(call.out.ranked) :
           /\ db[call.out.ranked[i].id].updated_gap = <<400>>
           /\ call.out.ranked[i].recency_factor = 9 * (Scale \div 10)
           /\ db[call.out.ranked[j].id].updated_gap = <<>>
           /\ call.out.ranked[j].recency_factor = Scale

\* The position of memory id in the pool the call fetched.
PoolPosition(c, id) == CHOOSE k \in 1..Len(c.out.pool) : c.out.pool[k] = id

\* C15: returned memories with equal final_score keep the order they have in
\* the fetched pool.
C15_TiesKeepPoolOrder ==
    (IsSearch \/ IsDetailed) =>
        \A i \in 1..Len(call.out.ranked) : \A j \in (i + 1)..Len(call.out.ranked) :
            call.out.ranked[i].final_score = call.out.ranked[j].final_score =>
                PoolPosition(call, call.out.ranked[i].id)
                    < PoolPosition(call, call.out.ranked[j].id)

\* C15 witness: a search returned two memories of equal, positive final_score.
C15_Witness ==
    /\ IsSearch
    /\ Len(call.out.ranked) = 2
    /\ call.out.ranked[1].final_score = call.out.ranked[2].final_score
    /\ call.out.ranked[1].final_score > 0
    /\ call.out.result = <<1, 2>>

\* The score of memory id under the recorded call's inputs, the provider
\* answering for the memories the loop did not reach.
ScoreOf(c, id) == ScoreMemory(c.p, c.qa.vec, db[id], CompletedTape(c))

\* The memories of the pool whose final_score is at least the threshold.
PassingThreshold(c) ==
    { id \in { c.out.pool[k] : k \in 1..Len(c.out.pool) } :
        /\ ScoreOf(c, id).kind = "return"
        /\ ScoreOf(c, id).value.final_score >= c.p.threshold }

\* C16: the search returns min(limit, number of passing candidates) memories,
\* all of them passing the threshold, and no passing candidate left out
\* scores higher than a returned one.
C16_LimitTruncation ==
    IsSearch =>
        /\ Len(call.out.result) <= call.p.limit
        /\ Len(call.out.result)
               = Min(call.p.limit, Cardinality(PassingThreshold(call)))
        /\ \A i \in 1..Len(call.out.result) :
               /\ call.out.result[i] \in PassingThreshold(call)
               /\ \A id \in PassingThreshold(call) :
                      (\A j \in 1..Len(call.out.result) : call.out.result[j] # id) =>
                          ScoreOf(call, id).value.final_score
                              <= ScoreOf(call, call.out.result[i]).value.final_score

\* C17: for the same inputs detailed_memory_search returns the same memories
\* in the same order as memory_similarity_search, and every final_score it
\* reports is at least the threshold.
C17_DetailedSameAsSearch ==
    /\ IsSearch =>
           DetailedMemorySearch(db, call.p, call.qa, call.tape).result = call.out.result
    /\ IsDetailed =>
           /\ MemorySimilaritySearch(db, call.p, call.qa, call.tape).result
                  = call.out.result
           /\ \A i \in 1..Len(call.out.ranked) :
                  call.out.ranked[i].final_score >= call.p.threshold

\* The recorded function call is analyze_potential_connection.
IsAnalysis == fn.op = "analyze_potential_connection"

\* The cue sets in the order of their checks, with the pair each one sets.
CueSets ==
    << [indicators |-> ContradictionIndicators, type |-> "contradicts", strength |-> 7],
       [indicators |-> PrerequisiteIndicators, type |-> "prerequisite", strength |-> 8],
       [indicators |-> FollowupIndicators, type |-> "followup", strength |-> 8],
       [indicators |-> ElaborationIndicators, type |-> "elaborates", strength |-> 9],
       [indicators |-> SummaryIndicators, type |-> "summarizes", strength |-> 9] >>

\* The cue sets the content matches, as positions of CueSets.
MatchedCueSets(content) ==
    { k \in 1..Len(CueSets) : AnyIn(CueSets[k].indicators, Lower(content)) }

\* min(0.4 + Jaccard(S, T), 1.0), capped at 0.5 when S and T share fewer than 2 topics.
RelatedStrength(S, T) ==
    LET jaccard == IF S \cup T = {} THEN 0
                   ELSE (Cardinality(S \cap T) * Scale) \div Cardinality(S \cup T)
        strength == Min(4 * (Scale \div 10) + jaccard, Scale)
    IN  IF Cardinality(S \cap T) < 2 THEN Min(strength, 5 * (Scale \div 10)) ELSE strength

\* C18: for a pair without a cue phrase analyze_potential_connection returns
\* "related" with strength min(0.4 + Jaccard of the topic sets, 1.0), capped
\* at 0.5 when fewer than 2 topics are shared.
C18_RelatedByTopicOverlap ==
    (IsAnalysis /\ MatchedCueSets(fn.source.content) = {}
                /\ MatchedCueSets(fn.target.content) = {}) =>
        fn.out = Return(<<"related", RelatedStrength(fn.source.topics, fn.target.topics)>>)

\* C19: when the source content contains "however" in any case,
\* analyze_potential_connection returns "contradicts" with strength 0.7.
C19_HoweverContradicts ==
    (IsAnalysis /\ Contains(Lower(fn.source.content), <<"h", "o", "w", "e", "v", "e", "r">>)) =>
        fn.out = Return(<<"contradicts", 7 * (Scale \div 10)>>)

\* C20: when the source content matches several cue sets, the returned type
\* and strength are those of the matched set checked last: summary over
\* elaboration over followup over prerequisite over contradiction.
C20_LastMatchedCueWins ==
    (IsAnalysis /\ Cardinality(MatchedCueSets(fn.source.content)) >= 2) =>
        LET last == CHOOSE k \in MatchedCueSets(fn.source.content) :
                        \A j \in MatchedCueSets(fn.source.content) : j <= k
        IN  fn.out = Return(<<CueSets[last].type, CueSets[last].strength * (Scale \div 10)>>)

\* C21: with a source free of cues, a contradiction cue in the target alone
\* gives "contradicts" with strength 0.7, and cues of the other four sets in
\* the target alone leave the type "related".
C21_OnlyContradictionReadsTarget ==
    (IsAnalysis /\ MatchedCueSets(fn.source.content) = {}) =>
        /\ 1 \in MatchedCueSets(fn.target.content) =>
               fn.out = Return(<<"contradicts", 7 * (Scale \div 10)>>)
        /\ (MatchedCueSets(fn.target.content) # {} /\ 1 \notin MatchedCueSets(fn.target.content)) =>
               fn.out = Return(<<"related", RelatedStrength(fn.source.topics, fn.target.topics)>>)

\* The candidates of the recorded connections call: the ids its search
\* returned, without the source.
NonSourceCandidates(c) ==
    SelectSeq(c.out.similar, LAMBDA id : StrOfId(id) # c.p.memory_id)

\* The strength analyze_potential_connection gives the source of the recorded
\* call and memory id.
StrengthOf(c, id) ==
    AnalyzePotentialConnection(SourceMemory(db, c.p.memory_id)[1], db[id]).value[2]

\* C22: find_memory_connections returns one suggestion for each of
\* min(limit, number of candidates) candidates other than the source, ordered
\* by strength descending, and no candidate left out is stronger than a
\* returned one.
C22_OneSuggestionPerTarget ==
    (IsConnections /\ call.out.found) =>
        /\ call.out.kind = "return"
        /\ Len(call.out.suggestions)
               = Min(call.p.limit, Len(NonSourceCandidates(call)))
        /\ \A i \in 1..Len(call.out.suggestions) :
               /\ \E k \in 1..Len(NonSourceCandidates(call)) :
                      call.out.suggestions[i].target_memory_id
                          = StrOfId(NonSourceCandidates(call)[k])
               /\ \A j \in 1..Len(call.out.suggestions) :
                      call.out.suggestions[i].target_memory_id
                          = call.out.suggestions[j].target_memory_id => i = j
        /\ \A i \in 1..(Len(call.out.suggestions) - 1) :
               call.out.suggestions[i].connection_strength
                   >= call.out.suggestions[i + 1].connection_strength
        /\ \A k \in 1..Len(NonSourceCandidates(call)) :
               (\A i \in 1..Len(call.out.suggestions) :
                    call.out.suggestions[i].target_memory_id
                        # StrOfId(NonSourceCandidates(call)[k])) =>
                   \A i \in 1..Len(call.out.suggestions) :
                       StrengthOf(call, NonSourceCandidates(call)[k])
                           <= call.out.suggestions[i].connection_strength

TokenStarts(s) == { i \in 1..Len(s) : s[i] # " " /\ (i = 1 \/ s[i - 1] = " ") }

\* The lower-cased token of s that starts at position i.
TokenAt(s, i) ==
    SubSeq(Lower(s), i,
           CHOOSE j \in i..Len(s) :
               /\ \A k \in i..j : s[k] # " "
               /\ (j = Len(s) \/ s[j + 1] = " "))

\* How often the token w occurs in s, and where it occurs first.
Frequency(s, w) == Cardinality({ i \in TokenStarts(s) : TokenAt(s, i) = w })

FirstStart(s, w) ==
    CHOOSE i \in TokenStarts(s) :
        /\ TokenAt(s, i) = w
        /\ \A j \in TokenStarts(s) : TokenAt(s, j) = w => i <= j

\* The tokens of s that are no stop word and longer than three characters.
EligibleTokens(s) ==
    { w \in { TokenAt(s, i) : i \in TokenStarts(s) } : w \notin CommonWords /\ Len(w) > 3 }

\* C24: extract_topics_simple returns min(max_topics, number of eligible
\* tokens) distinct lower-cased tokens, none a stop word or of length <= 3,
\* ordered by frequency descending, equal frequencies by first occurrence in
\* the text; no eligible token left out is more frequent than a returned one.
C24_TopicsByFrequency ==
    fn.op = "extract_topics_simple" =>
        LET topics == fn.out.value
            eligible == EligibleTokens(fn.content)
        IN  /\ Len(topics) <= fn.max_topics
            /\ Len(topics) = Min(fn.max_topics, Cardinality(eligible))
            /\ \A i \in 1..Len(topics) :
                   /\ topics[i] \in eligible
                   /\ \A j \in 1..Len(topics) : topics[i] = topics[j] => i = j
                   /\ \A w \in eligible :
                          (\A j \in 1..Len(topics) : topics[j] # w) =>
                              Frequency(fn.content, w) <= Frequency(fn.content, topics[i])
            /\ \A i \in 1..(Len(topics) - 1) :
                   \/ Frequency(fn.content, topics[i]) > Frequency(fn.content, topics[i + 1])
                   \/ /\ Frequency(fn.content, topics[i]) = Frequency(fn.content, topics[i + 1])
                      /\ FirstStart(fn.content, topics[i]) < FirstStart(fn.content, topics[i + 1])

\* C24 witness: "team Plan then plan" with max_topics 1: "plan" occurs twice
\* (once capitalised), after "team" and around the stop word "then", and is
\* the one topic returned.
C24_Witness ==
    /\ fn.op = "extract_topics_simple"
    /\ fn.max_topics = 1
    /\ fn.content = <<"t", "e", "a", "m", " ", "P", "l", "a", "n", " ", "t", "h", "e", "n", " ", "p", "l", "a", "n">>
    /\ fn.out = Return(<< <<"p", "l", "a", "n">> >>)

\* C26: without an API key, or when the chat completion raises,
\* extract_key_topics returns what extract_topics_simple returns for the same
\* text and max_topics, and raises nothing.
C26_TopicsFallBack ==
    (fn.op = "extract_key_topics" /\ fn.provider.kind \in {"absent", "raises"}) =>
        /\ fn.out.kind = "return"
        /\ fn.out.value = ExtractTopicsSimple(fn.content, fn.max_topics)

\* C26 witness: the completion raised for a text of two eligible words, and
\* both came back as topics.
C26_Witness ==
    /\ fn.op = "extract_key_topics"
    /\ fn.provider = FailingProvider
    /\ fn.max_topics = 2
    /\ fn.out = Return(<< <<"g", "o", "a", "l">>, <<"t", "e", "a", "m">> >>)

\* content holds keyword in some mix of cases, read off the positions of content.
HoldsKeyword(content, keyword) ==
    \E i \in 1..(Len(content) - Len(keyword) + 1) :
        \A k \in 1..Len(keyword) : LowerChar(content[i + k - 1]) = keyword[k]

\* C25: calculate_importance_score returns 0.5, less 0.1 when the text is
\* shorter than 100 characters, plus 0.1 when it is longer than 500, plus 0.1
\* once when at least one urgency keyword occurs in it in any case, and the
\* result is within [0.1, 1.0].
C25_ImportanceHeuristic ==
    fn.op = "calculate_importance_score" =>
        /\ fn.out = (5 - (IF Len(fn.content) < 100 THEN 1 ELSE 0)
                       + (IF Len(fn.content) > 500 THEN 1 ELSE 0)
                       + (IF \E keyword \in ImportantKeywords : HoldsKeyword(fn.content, keyword)
                          THEN 1 ELSE 0)) * (Scale \div 10)
        /\ Scale \div 10 <= fn.out
        /\ fn.out <= Scale

\* C25 witness: a text of 501 characters opening with "Urgent key", which
\* holds two keywords: 0.5 + 0.1 + 0.1 = 0.7.
C25_Witness ==
    /\ fn.op = "calculate_importance_score"
    /\ Len(fn.content) = 501
    /\ HoldsKeyword(fn.content, <<"u", "r", "g", "e", "n", "t">>)
    /\ HoldsKeyword(fn.content, <<"k", "e", "y">>)
    /\ fn.out = 7 * (Scale \div 10)

\* C27: no step of search, detailed search or suggestConnections changes a
\* field of a record: the rows after every engine call are the rows before it.
C27_RecordsUnchanged == [][db' = db]_vars

\* C27 witness: a search obtained an embedding from the provider for a memory
\* without a stored one and returned that memory; its row still has none.
C27_Witness ==
    /\ IsSearch
    /\ \E i \in 1..Len(call.out.result) :
           /\ call.out.result[i] \in DOMAIN call.tape
           /\ call.tape[call.out.result[i]] # NotAsked
           /\ db[call.out.result[i]].embedding = NoEmbedding

\* C28: with weights in [0, 1] that sum to 1, every candidate the search or
\* detailed search scores gets a final_score in [0, 1].
C28_FinalScoreInUnitRange ==
    ((IsSearch \/ IsDetailed)
         /\ call.p.vector_weight \in 0..10 /\ call.p.keyword_weight \in 0..10
         /\ call.p.vector_weight + call.p.keyword_weight = 10) =>
        \A k \in 1..Len(call.out.pool) :
            ScoreOf(call, call.out.pool[k]).kind = "return" =>
                /\ 0 <= ScoreOf(call, call.out.pool[k]).value.final_score
                /\ ScoreOf(call, call.out.pool[k]).value.final_score <= Scale

\* The row is within the scope the parameters ask for.
InScope(m, p) ==
    /\ m.client_id = p.client_id
    /\ (p.brand_id # "None" => m.brand_id = p.brand_id)
    /\ (p.customer_id # "None" => m.customer_id = p.customer_id)

\* C29: every memory search or detailed search fetches, embeds, scores or
\* returns has the requested client_id and, where supplied, the requested
\* brand_id and customer_id.
C29_ScopeIsolation ==
    (IsSearch \/ IsDetailed) =>
        /\ \A k \in 1..Len(call.out.pool) : InScope(db[call.out.pool[k]], call.p)
        /\ \A i \in 1..Len(call.out.result) : InScope(db[call.out.result[i]], call.p)
        /\ \A i \in 1..Len(call.out.ranked) : InScope(db[call.out.ranked[i].id], call.p)
        /\ \A id \in DOMAIN call.tape : InScope(db[id], call.p)

\* C29 witness: a search for one customer of client c1 over a table that also
\* holds a memory of the client without that customer returned the customer's
\* memory alone, though the other memory scores at least the threshold.
C29_Witness ==
    /\ IsSearch
    /\ call.p.customer_id = "k1"
    /\ Len(db) = 2
    /\ db[1].client_id = "c1"
    /\ db[1].customer_id = "None"
    /\ ScoreMemory(call.p, call.qa.vec, db[1], [i \in {1} |-> call.qa]).kind = "return"
    /\ ScoreMemory(call.p, call.qa.vec, db[1], [i \in {1} |-> call.qa]).value.final_score
           >= call.p.threshold
    /\ call.out.result = <<2>>

\* How many times the recorded call asked the provider to embed the query /
\* the content of memory id.
QueryEmbedCalls(c) ==
    Cardinality({ k \in 1..Len(c.out.events) : c.out.events[k][1] = "embed_query" })

MemoryEmbedCalls(c, id) ==
    Cardinality({ k \in 1..Len(c.out.events) : c.out.events[k] = <<"embed_memory", id>> })

\* C30: one search asks the provider once for the query, before any candidate
\* is scored, once for every candidate of the pool without a stored
\* embedding, and never for a candidate that has one.
C30_ProviderCalledOncePerMissing ==
    (IsSearch \/ IsDetailed) =>
        /\ QueryEmbedCalls(call) = 1
        /\ \A k \in 1..Len(call.out.events) :
               call.out.events[k][1] # "embed_query" =>
                   \E j \in 1..(k - 1) : call.out.events[j][1] = "embed_query"
        /\ \A k \in 1..Len(call.out.pool) :
               MemoryEmbedCalls(call, call.out.pool[k])
                   = IF db[call.out.pool[k]].embedding.kind = "none" THEN 1 ELSE 0

====
